---- MODULE Spec2Model ----
(***************************************************************************)
(* A model of formal/scopes.py: the tree of Scope objects, the mutation    *)
(* calls a builder makes on it (load, store, store_walrus, add_nonlocal,   *)
(* add_global, nest), the three phases of Scope.build() and the queries    *)
(* that are valid after the build (status, binding_scope); and of          *)
(* formal/namespaces.py: the Namespace made for each scope, its Bindings,  *)
(* and load, store and delete through the binding namespace.               *)
(*                                                                         *)
(* A scope is an integer handle.  Master (0) is the MasterScope that every *)
(* GlobalScope gets as its parent, Root (1) is the GlobalScope, and nested *)
(* scopes are numbered in creation order.  None (-1) stands for Python's   *)
(* None, both as a vars value ("Used") and as a returned scope.            *)
(***************************************************************************)
EXTENDS Integers, Sequences, FiniteSets, TLC

\* ------------------------------------------------------------------ bounds

\* Most NestedScope objects a run creates under the GlobalScope.
MaxScopes == 3

\* ------------------------------------------------------------- vocabulary

Master == 0
Root == 1
None == -1

\* Variable names the builder reports.
Names == {"x"}
\* Names of the function and class defs the builder reports.
DefNames == {"f"}
\* The scope_name of an anonymous scope (nest() called without a name).
NoName == "<None>"

\* The classes nest() is called with.
ClosedKinds == {"Function", "Lambda", "Comprehension"}
NestKinds == ClosedKinds \cup {"Class"}
AnonKinds == {"Lambda", "Comprehension"}
DefKinds == {"Function", "Class"}

\* The SyntaxError messages of scopes.py, by the place that raises them.
NoBinding == "no binding for nonlocal found"
ModuleLevel == "nonlocal declaration not allowed at module level"
NonlocalAndGlobal == "name is nonlocal and global"
UsedPriorNonlocal == "name is used prior to nonlocal declaration"
UsedPriorGlobal == "name used prior to global declaration"
WalrusIterable == "assignment expression cannot be used in a comprehension iterable expression"
WalrusClass == "assignment expression within a comprehension cannot be used in a class body"
StaticBindingErrors ==
    {NoBinding, ModuleLevel, NonlocalAndGlobal, UsedPriorNonlocal,
     UsedPriorGlobal, WalrusIterable, WalrusClass}
NotImplemented == "NotImplementedError"
Ok == "ok"

\* ------------------------------------------------------------------ state

VARIABLES
    kind,          \* kind[s]: the class of scope s
    parent,        \* parent[s]: Scope.parent
    global_scope,  \* global_scope[s]: Scope.global_scope
    nested,        \* nested[s]: Scope.nested, a sequence of scopes
    no_walrus,     \* no_walrus[s]: Scope.no_walrus
    vars,          \* vars[s]: Scope.vars, a dict name -> scope or None
    phase,         \* phase[s]: how far build() of s has got
    cur,           \* the scope whose build() is running, None outside build()
    builds,        \* how many times build() of the root has returned
    space,         \* space[s]: Namespace.vars of the Namespace made for scope s,
                   \* a dict name -> value or Unbound, for the scopes that have one
    ref,           \* ref[s]: Scope.ref and Scope.builder, for the scopes that
                   \* scopes_test.py makes: the ScopeParams and the builder
    py             \* py[s]: what the block written for scope s holds for x while
                   \* the program scopes_test.py writes runs, for the blocks entered

treeVars == <<kind, parent, global_scope, nested, no_walrus>>
buildVars == <<phase, cur, builds>>
genVars == <<ref, py>>
allVars == <<kind, parent, global_scope, nested, no_walrus, vars, phase, cur, builds, space,
             ref, py>>

Scopes == DOMAIN kind
\* The scopes a builder can be handed: everything but the MasterScope.
Callable == Scopes \ {Master}
NestedScopes == Scopes \ {Master, Root}

\* ----------------------------------------------------------- dict helpers

EmptyDict == [k \in {} |-> None]
Has(d, k) == k \in DOMAIN d
Put(d, k, x) == [j \in (DOMAIN d) \cup {k} |-> IF j = k THEN x ELSE d[j]]
\* The least number of a set of numbers.
Least(S) == CHOOSE i \in S : \A j \in S : i <= j
\* v with v[s][n] set to x
SetVar(v, s, n, x) == [v EXCEPT ![s] = Put(v[s], n, x)]

\* --------------------------------------------------------------- VarStatus

is_local(st) == st \in {"Local", "Top"}
is_nonlocal(st) == st = "Nonlocal"
is_global(st) == st \in {"Global", "Top"}
is_used(st) == st = "Used"

\* Scope.status, read in the vars map v.
status_wrong_top(v, s, n) ==
    IF ~Has(v[s], n) THEN "Unknown"
    ELSE IF v[s][n] = None THEN "Used"
    ELSE IF v[s][n] = global_scope[s] THEN "Top"
    ELSE IF v[s][n] = s THEN "Local"
    ELSE "Nonlocal"

status(v, s, n) ==
    IF ~Has(v[s], n) THEN "Unknown"
    ELSE IF v[s][n] = None THEN "Used"
    ELSE IF s = global_scope[s] THEN "Top"
    ELSE IF v[s][n] = s THEN "Local"
    ELSE IF v[s][n] = global_scope[s] THEN "Global"
    ELSE "Nonlocal"

\* ------------------------------------------------------- mutation methods
\* Each method is an operator from the vars map it is called in to a record
\* [v: the vars map it leaves, r: the scope it returns (or None), err: Ok or
\* the exception it raises].  An exception keeps the writes made before
\* it, so a call that fails is a step too: it leaves the vars map v.

Result(v, r, err) == [v |-> v, r |-> r, err |-> err]

\* Scope.load: dict.setdefault(name, None)
load_resets(v, s, n) == Result(SetVar(v, s, n, None), None, Ok)

load(v, s, n) ==
    IF Has(v[s], n) THEN Result(v, v[s][n], Ok)
    ELSE Result(SetVar(v, s, n, None), None, Ok)

RECURSIVE store(_, _, _)
store_overwrites(v, s, n) ==
    Result(SetVar(v, s, n, s), s, Ok)

store_no_redirect(v, s, n) ==
    LET l == load(v, s, n) IN
    IF l.r = None THEN Result(SetVar(l.v, s, n, s), s, Ok)
    ELSE Result(l.v, l.r, Ok)

\* Scope.store
store(v, s, n) ==
    LET l == load(v, s, n) IN
    IF l.r = None THEN Result(SetVar(l.v, s, n, s), s, Ok)
    ELSE IF status(l.v, s, n) = "Global"
         THEN Result(store(l.v, l.r, n).v, l.r, Ok)
         ELSE Result(l.v, l.r, Ok)

RECURSIVE nonlocal_scope(_, _, _)

\* GlobalScope.nonlocal_scope
GlobalNonlocalScope_captures(v, s, n) ==
    IF status(v, s, n) = "Top" THEN Result(v, s, Ok) ELSE Result(v, None, Ok)

GlobalNonlocalScope(v, s, n) == Result(v, None, Ok)

\* OpenScope.nonlocal_scope
OpenNonlocalScope_visible(v, s, n) ==
    IF status(v, s, n) = "Local" THEN Result(v, s, Ok)
    ELSE nonlocal_scope(v, parent[s], n)

OpenNonlocalScope(v, s, n) == nonlocal_scope(v, parent[s], n)

\* ClosedScope.nonlocal_scope
ClosedNonlocalScope_stops_at_used(v, s, n) ==
    LET l == load(v, s, n) IN
    IF l.r = global_scope[s] \/ l.r = None THEN Result(l.v, None, Ok)
    ELSE Result(l.v, l.r, Ok)

ClosedNonlocalScope_takes_used(v, s, n) ==
    LET l == load(v, s, n) IN
    IF l.r = global_scope[s] THEN Result(l.v, None, Ok)
    ELSE IF l.r # None THEN Result(l.v, l.r, Ok)
    ELSE Result(l.v, s, Ok)

ClosedNonlocalScope(v, s, n) ==
    LET l == load(v, s, n) IN
    IF l.r = global_scope[s] THEN Result(l.v, None, Ok)
    ELSE IF l.r # None THEN Result(l.v, l.r, Ok)
    ELSE nonlocal_scope(l.v, parent[s], n)

\* Scope.nonlocal_scope, dispatched on the class of s.  MasterScope and
\* ToplevelScope inherit the base method, which raises.
nonlocal_scope(v, s, n) ==
    IF kind[s] = "Global" THEN GlobalNonlocalScope(v, s, n)
    ELSE IF kind[s] = "Class" THEN OpenNonlocalScope(v, s, n)
    ELSE IF kind[s] \in ClosedKinds THEN ClosedNonlocalScope(v, s, n)
    ELSE Result(v, None, NotImplemented)

\* Scope.add_nonlocal (GlobalScope.add_nonlocal for the root)
add_nonlocal_ignored_at_module_level(v, s, n) ==
    IF kind[s] = "Global" THEN Result(v, None, Ok)
    ELSE LET st == status(v, s, n) IN
         IF st = "Unknown" THEN
             LET f == nonlocal_scope(v, s, n) IN
             IF f.err # Ok THEN f
             ELSE IF f.r = None THEN Result(f.v, None, NoBinding)
             ELSE Result(SetVar(f.v, s, n, f.r), f.r, Ok)
         ELSE IF is_nonlocal(st) THEN Result(v, v[s][n], Ok)
         ELSE IF is_global(st) THEN Result(v, None, NonlocalAndGlobal)
         ELSE Result(v, None, UsedPriorNonlocal)

add_nonlocal(v, s, n) ==
    IF kind[s] = "Global" THEN Result(v, None, ModuleLevel)
    ELSE LET st == status(v, s, n) IN
         IF st = "Unknown" THEN
             LET f == nonlocal_scope(v, s, n) IN
             IF f.err # Ok THEN f
             ELSE IF f.r = None THEN Result(f.v, None, NoBinding)
             ELSE Result(SetVar(f.v, s, n, f.r), f.r, Ok)
         ELSE IF is_nonlocal(st) THEN Result(v, v[s][n], Ok)
         ELSE IF is_global(st) THEN Result(v, None, NonlocalAndGlobal)
         ELSE Result(v, None, UsedPriorNonlocal)

\* Scope.add_global (GlobalScope.add_global for the root)
add_global_after_use(v, s, n) ==
    IF kind[s] = "Global" THEN store(v, s, n)
    ELSE LET st == status(v, s, n) IN
         IF st \in {"Unknown", "Used"}
             THEN Result(SetVar(v, s, n, global_scope[s]), global_scope[s], Ok)
         ELSE IF is_global(st) THEN Result(v, global_scope[s], Ok)
         ELSE IF is_nonlocal(st) THEN Result(v, None, NonlocalAndGlobal)
         ELSE Result(v, None, UsedPriorGlobal)

add_global_over_nonlocal(v, s, n) ==
    IF kind[s] = "Global" THEN store(v, s, n)
    ELSE LET st == status(v, s, n) IN
         IF st \in {"Unknown", "Nonlocal"}
             THEN Result(SetVar(v, s, n, global_scope[s]), global_scope[s], Ok)
         ELSE IF is_global(st) THEN Result(v, global_scope[s], Ok)
         ELSE Result(v, None, UsedPriorGlobal)

add_global(v, s, n) ==
    IF kind[s] = "Global" THEN store(v, s, n)
    ELSE LET st == status(v, s, n) IN
         IF st = "Unknown"
             THEN Result(SetVar(v, s, n, global_scope[s]), global_scope[s], Ok)
         ELSE IF is_global(st) THEN Result(v, global_scope[s], Ok)
         ELSE IF is_nonlocal(st) THEN Result(v, None, NonlocalAndGlobal)
         ELSE Result(v, None, UsedPriorGlobal)

\* Scope.store_walrus (ClassScope.store_walrus for a class)
store_walrus_ignores_flag(v, s, n) ==
    IF kind[s] = "Class" THEN Result(v, None, WalrusClass)
    ELSE store(v, s, n)

store_walrus(v, s, n) ==
    IF kind[s] = "Class" THEN Result(v, None, WalrusClass)
    ELSE IF no_walrus[s] THEN Result(v, None, WalrusIterable)
    ELSE store(v, s, n)

\* NestedScope.binding_scope (GlobalScope.binding_scope for the root)
binding_scope_searches_again(v, s, n) ==
    IF kind[s] = "Global" THEN store(v, s, n)
    ELSE IF kind[s] \notin NestKinds THEN Result(v, None, NotImplemented)
    ELSE LET l == load(v, s, n) IN
         LET f == nonlocal_scope(l.v, parent[s], n) IN
         IF f.err # Ok THEN f
         ELSE LET t == IF f.r = None THEN global_scope[s] ELSE f.r IN
              Result(SetVar(f.v, s, n, t), t, Ok)

binding_scope_parent_is_target(v, s, n) ==
    IF kind[s] = "Global" THEN store(v, s, n)
    ELSE IF kind[s] \notin NestKinds THEN Result(v, None, NotImplemented)
    ELSE LET l == load(v, s, n) IN
         IF l.r # None THEN l
         ELSE LET f == nonlocal_scope(l.v, parent[s], n) IN
              IF f.err # Ok THEN f
              ELSE LET t == IF f.r = None THEN global_scope[s] ELSE parent[s] IN
                   Result(SetVar(f.v, s, n, t), t, Ok)

binding_scope_open_is_global(v, s, n) ==
    IF kind[s] = "Global" THEN store(v, s, n)
    ELSE IF kind[s] \notin NestKinds THEN Result(v, None, NotImplemented)
    ELSE LET l == load(v, s, n) IN
         IF l.r # None THEN l
         ELSE IF kind[s] = "Class"
         THEN Result(SetVar(l.v, s, n, global_scope[s]), global_scope[s], Ok)
         ELSE LET f == nonlocal_scope(l.v, parent[s], n) IN
              IF f.err # Ok THEN f
              ELSE LET t == IF f.r = None THEN global_scope[s] ELSE f.r IN
                   Result(SetVar(f.v, s, n, t), t, Ok)

binding_scope(v, s, n) ==
    IF kind[s] = "Global" THEN store(v, s, n)
    ELSE IF kind[s] \notin NestKinds THEN Result(v, None, NotImplemented)
    ELSE LET l == load(v, s, n) IN
         IF l.r # None THEN l
         ELSE LET f == nonlocal_scope(l.v, parent[s], n) IN
              IF f.err # Ok THEN f
              ELSE LET t == IF f.r = None THEN global_scope[s] ELSE f.r IN
                   Result(SetVar(f.v, s, n, t), t, Ok)

\* ------------------------------------------------------- object creation

NewScope == Cardinality(Scopes)
Ext(f, x) == [i \in Scopes \cup {NewScope} |-> IF i \in Scopes THEN f[i] ELSE x]

\* The name nest() is given: function and class defs are named, lambdas and
\* comprehensions are anonymous.
NestNames(cls) == IF cls \in DefKinds THEN DefNames ELSE {NoName}

\* GlobalScope(): the root, with a fresh MasterScope as its parent.
Init ==
    /\ kind = [i \in {Master, Root} |-> IF i = Master THEN "Master" ELSE "Global"]
    /\ parent = [i \in {Master, Root} |-> IF i = Master THEN None ELSE Master]
    /\ global_scope = [i \in {Master, Root} |-> IF i = Master THEN None ELSE Root]
    /\ nested = [i \in {Master, Root} |-> <<>>]
    /\ no_walrus = [i \in {Master, Root} |-> FALSE]
    /\ vars = [i \in {Master, Root} |-> EmptyDict]
    /\ phase = [i \in {Master, Root} |-> "new"]
    /\ cur = None
    /\ builds = 0
    /\ space = EmptyDict
    /\ ref = EmptyDict
    /\ py = EmptyDict

\* ------------------------------------------------------------ the calls

Load(s, n) ==
    LET res == load(vars, s, n) IN
    /\ vars' = res.v
    /\ UNCHANGED treeVars

Store(s, n) ==
    LET res == store(vars, s, n) IN
    /\ vars' = res.v
    /\ UNCHANGED treeVars

StoreWalrus(s, n) ==
    LET res == store_walrus(vars, s, n) IN
    /\ vars' = res.v
    /\ UNCHANGED treeVars

AddNonlocal(s, n) ==
    LET res == add_nonlocal(vars, s, n) IN
    /\ vars' = res.v
    /\ UNCHANGED treeVars

AddGlobal(s, n) ==
    LET res == add_global(vars, s, n) IN
    /\ vars' = res.v
    /\ UNCHANGED treeVars

BindingScope(s, n) ==
    LET res == binding_scope(vars, s, n) IN
    /\ vars' = res.v
    /\ UNCHANGED treeVars

\* Scope.nest: cls(name, self) runs Scope.__init__ and NestedScope.__init__
\* (which stores the name in the parent), then the child is appended.
NestScope(s, cls, name) ==
    /\ kind' = Ext(kind, cls)
    /\ parent' = Ext(parent, s)
    /\ global_scope' = Ext(global_scope, global_scope[s])
    /\ no_walrus' = Ext(no_walrus, no_walrus[s])
    /\ nested' = [Ext(nested, <<>>) EXCEPT ![s] = Append(nested[s], NewScope)]
    /\ vars' = store(Ext(vars, EmptyDict), s, name).v
    /\ phase' = Ext(phase, "new")

\* nest() while the tree has fewer than MaxScopes nested scopes.
Nest_global_is_parent(s, cls, name) ==
    /\ Cardinality(NestedScopes) < MaxScopes
    /\ kind' = Ext(kind, cls)
    /\ parent' = Ext(parent, s)
    /\ global_scope' = Ext(global_scope, s)
    /\ no_walrus' = Ext(no_walrus, no_walrus[s])
    /\ nested' = [Ext(nested, <<>>) EXCEPT ![s] = Append(nested[s], NewScope)]
    /\ vars' = store(Ext(vars, EmptyDict), s, name).v
    /\ phase' = Ext(phase, "new")

Nest(s, cls, name) ==
    /\ Cardinality(NestedScopes) < MaxScopes
    /\ NestScope(s, cls, name)

\* ---------------------------------------------------- calls in any order
\* A client that drives the mutation and query methods directly, on any
\* scope of the tree and in any order.

Next ==
    \/ \E s \in Callable, n \in Names : Load(s, n) /\ UNCHANGED <<buildVars, space, genVars>>
    \/ \E s \in Callable, n \in Names : Store(s, n) /\ UNCHANGED <<buildVars, space, genVars>>
    \/ \E s \in Callable, n \in Names : StoreWalrus(s, n) /\ UNCHANGED <<buildVars, space, genVars>>
    \/ \E s \in Callable, n \in Names : AddNonlocal(s, n) /\ UNCHANGED <<buildVars, space, genVars>>
    \/ \E s \in Callable, n \in Names : AddGlobal(s, n) /\ UNCHANGED <<buildVars, space, genVars>>
    \/ \E s \in Callable, n \in Names : BindingScope(s, n) /\ UNCHANGED <<buildVars, space, genVars>>
    \/ \E s \in Callable, cls \in DefKinds : \E name \in NestNames(cls) :
            Nest(s, cls, name) /\ UNCHANGED <<cur, builds, space, genVars>>

Spec == Init /\ [][Next]_allVars

\* ---------------------------------------------------------- Scope.build
\* build() of the root, step by step.  phase[s] is "new" before build() of s
\* is entered, "builder" while its builder runs (Phase 1), "nested" while its
\* nested scopes are built (Phase 2) and "done" once its Used names are
\* resolved (Phase 3).  cur is the scope whose build() is running.

\* cur after a SyntaxError has left build() of the root.
Aborted == -2

InBuilder == cur \in Callable /\ phase[cur] = "builder"

\* Phase 3 of build(): binding_scope for every name whose vars value is None.
RECURSIVE resolve_used(_, _, _)
resolve_used(v, s, todo) ==
    IF todo = {} THEN v
    ELSE LET n == CHOOSE k \in todo : TRUE IN
         resolve_used(IF v[s][n] = None THEN binding_scope(v, s, n).v ELSE v,
                      s, todo \ {n})

phase3_skips_root(v, s) ==
    IF kind[s] = "Global" THEN v ELSE resolve_used(v, s, DOMAIN v[s])

phase3(v, s) == resolve_used(v, s, DOMAIN v[s])

\* root.build() is called.
BuildRoot ==
    /\ cur = None
    /\ phase[Root] = "new"
    /\ phase' = [phase EXCEPT ![Root] = "builder"]
    /\ cur' = Root
    /\ UNCHANGED <<treeVars, vars, builds, space, genVars>>

\* A call made by the builder of cur.  A SyntaxError that the builder does
\* not catch leaves build() of the root.
BuilderCall(res) ==
    /\ InBuilder
    /\ vars' = res.v
    /\ cur' = IF res.err = Ok THEN cur ELSE Aborted
    /\ UNCHANGED <<treeVars, phase, builds, space, genVars>>

\* build_scope of the tests: add_nonlocal inside try/except SyntaxError,
\* the builder returning at once when it is raised.
BuilderTriesNonlocal(n) ==
    LET res == add_nonlocal(vars, cur, n) IN
    /\ InBuilder
    /\ vars' = res.v
    /\ phase' = IF res.err = Ok THEN phase ELSE [phase EXCEPT ![cur] = "nested"]
    /\ UNCHANGED <<treeVars, cur, builds, space, genVars>>

BuilderNests(cls, name) ==
    /\ InBuilder
    /\ Nest(cur, cls, name)
    /\ UNCHANGED <<cur, builds, space, genVars>>

\* build_set_in_parent_scope of the tests: scope.parent.store(name).
BuilderStoresInParent(n) ==
    /\ cur \in NestedScopes
    /\ BuilderCall(store(vars, parent[cur], n))

\* The builder returns: Phase 1 is over.
BuilderReturns ==
    /\ InBuilder
    /\ phase' = [phase EXCEPT ![cur] = "nested"]
    /\ UNCHANGED <<treeVars, vars, cur, builds, space, genVars>>

NotBuilt(s) == {i \in 1..Len(nested[s]) : phase[nested[s][i]] # "done"}

\* Phase 2: build() of the next nested scope, in nested order.
BuildNested_last_first ==
    /\ cur \in Callable
    /\ phase[cur] = "nested"
    /\ NotBuilt(cur) # {}
    /\ LET c == nested[cur][CHOOSE i \in NotBuilt(cur) : \A j \in NotBuilt(cur) : i >= j] IN
       /\ phase' = [phase EXCEPT ![c] = "builder"]
       /\ cur' = c
    /\ UNCHANGED <<treeVars, vars, builds, space, genVars>>

BuildNested ==
    /\ cur \in Callable
    /\ phase[cur] = "nested"
    /\ NotBuilt(cur) # {}
    /\ LET c == nested[cur][CHOOSE i \in NotBuilt(cur) : \A j \in NotBuilt(cur) : i <= j] IN
       /\ phase' = [phase EXCEPT ![c] = "builder"]
       /\ cur' = c
    /\ UNCHANGED <<treeVars, vars, builds, space, genVars>>

\* Phase 3, and the return to the build() that called this one.
Phase3 ==
    /\ cur \in Callable
    /\ phase[cur] = "nested"
    /\ NotBuilt(cur) = {}
    /\ vars' = phase3(vars, cur)
    /\ phase' = [phase EXCEPT ![cur] = "done"]
    /\ cur' = IF cur = Root THEN None ELSE parent[cur]
    /\ builds' = IF cur = Root THEN builds + 1 ELSE builds
    /\ UNCHANGED <<treeVars, space, genVars>>

Built == cur = None /\ phase[Root] = "done"

\* A query on the built tree.
Query(s, n) ==
    /\ Built
    /\ BindingScope(s, n)
    /\ UNCHANGED <<buildVars, space, genVars>>

NextBuild ==
    \/ BuildRoot
    \/ \E n \in Names : BuilderCall(load(vars, cur, n))
    \/ \E n \in Names : BuilderCall(store(vars, cur, n))
    \/ \E n \in Names : BuilderCall(store_walrus(vars, cur, n))
    \/ \E n \in Names : BuilderCall(add_nonlocal(vars, cur, n))
    \/ \E n \in Names : BuilderCall(add_global(vars, cur, n))
    \/ \E n \in Names : BuilderTriesNonlocal(n)
    \/ \E n \in Names : BuilderStoresInParent(n)
    \/ \E cls \in DefKinds : \E name \in NestNames(cls) : BuilderNests(cls, name)
    \/ BuilderReturns
    \/ BuildNested
    \/ Phase3
    \/ \E s \in Callable, n \in Names : Query(s, n)

SpecBuild == Init /\ [][NextBuild]_allVars

\* build() of a program without global and nonlocal declarations: the
\* builders only load and store names, in their own scope or (as
\* build_set_in_parent_scope of the tests does) in the parent, and nest
\* scopes.  Every name that ends Global or Nonlocal in a nested scope was
\* classified by a resolution, none by a declaration.
NextPlain ==
    \/ BuildRoot
    \/ \E n \in Names : BuilderCall(load(vars, cur, n))
    \/ \E n \in Names : BuilderCall(store(vars, cur, n))
    \/ \E n \in Names : BuilderStoresInParent(n)
    \/ \E cls \in DefKinds : \E name \in NestNames(cls) : BuilderNests(cls, name)
    \/ BuilderReturns
    \/ BuildNested
    \/ Phase3

SpecPlain == Init /\ [][NextPlain]_allVars

\* ------------------------------------------------------ scopes.py test()
\* The sample program of test():
\*     class C:
\*       def foo(self, a = blah):
\*         global x
\*         x = a
\* built by globals_build, c_build and foo_build, and then queried with
\* binding_scope.  The asserts of test() make the queries in one order; here
\* they are made in any order, any number of times.

TestNames == {"C", "foo", "self", "a", "blah", "x"}
\* The scopes c and foo of test(), numbered in creation order.
TestC == 2
TestFoo == 3

\* globals_build: c = scope.nest(ClassScope, "C", build=c_build)
GlobalsBuild ==
    /\ InBuilder /\ cur = Root /\ nested[cur] = <<>>
    /\ Nest(cur, "Class", "C")
    /\ UNCHANGED <<cur, builds, space, genVars>>

\* c_build: foo = scope.nest(FunctionScope, "foo", build=foo_build)
CBuild ==
    /\ InBuilder /\ kind[cur] = "Class" /\ nested[cur] = <<>>
    /\ Nest(cur, "Function", "foo")
    /\ UNCHANGED <<cur, builds, space, genVars>>

\* foo_build: scope.store("self"); scope.store("a"); scope.add_global("x")
FooBuild ==
    /\ InBuilder /\ kind[cur] = "Function"
    /\ \/ ~Has(vars[cur], "self") /\ BuilderCall(store(vars, cur, "self"))
       \/ Has(vars[cur], "self") /\ ~Has(vars[cur], "a")
            /\ BuilderCall(store(vars, cur, "a"))
       \/ Has(vars[cur], "a") /\ ~Has(vars[cur], "x")
            /\ BuilderCall(add_global(vars, cur, "x"))

\* The builder of cur has made all its calls.
TestBuilderDone ==
    IF kind[cur] = "Function" THEN Has(vars[cur], "x") ELSE nested[cur] # <<>>

TestBuilderReturns == InBuilder /\ TestBuilderDone /\ BuilderReturns

NextTest ==
    \/ BuildRoot
    \/ GlobalsBuild
    \/ CBuild
    \/ FooBuild
    \/ TestBuilderReturns
    \/ BuildNested
    \/ Phase3
    \/ \E s \in {TestC, TestFoo}, n \in TestNames : Built /\ BindingScope(s, n) /\ UNCHANGED <<buildVars, space, genVars>>

SpecTest == Init /\ [][NextTest]_allVars

\* ------------------------------------------------- build() called again
\* The function of test() at module level,
\*     def foo(self, a = blah):
\*       global x
\*       x = a
\* built by a builder that nests foo (as c_build does) and by foo_build, then
\* queried, and then built again: root.build() runs the same builders a
\* second time on the tree the first build left.

\* foo_build, run from start to end.
foo_build(v, s) ==
    LET r1 == store(v, s, "self")
        r2 == store(r1.v, s, "a")
    IN  add_global(r2.v, s, "x")

\* The builder of the root: scope.nest(FunctionScope, "foo", build=foo_build),
\* once in every run.
ModuleBuild ==
    /\ InBuilder /\ cur = Root /\ Len(nested[Root]) = builds
    /\ Nest(cur, "Function", "foo")
    /\ UNCHANGED <<cur, builds, space, genVars>>

\* foo_build on a scope that foo_build has run on before.
FooBuildAgain ==
    /\ InBuilder /\ kind[cur] = "Function" /\ Has(vars[cur], "x")
    /\ BuilderCall(foo_build(vars, cur))

AgainBuilderDone ==
    IF cur = Root THEN Len(nested[Root]) = builds + 1 ELSE Has(vars[cur], "x")

AgainBuilderReturns == InBuilder /\ AgainBuilderDone /\ BuilderReturns

\* root.build() is called on the built tree.  Nothing of an earlier build is
\* remembered: every scope is as far as before its first build().
BuildAgain ==
    /\ Built
    /\ Len(nested[Root]) < MaxScopes
    /\ phase' = [i \in Scopes |-> IF i = Root THEN "builder" ELSE "new"]
    /\ cur' = Root
    /\ UNCHANGED <<treeVars, vars, builds, space, genVars>>

NextAgain ==
    \/ BuildRoot
    \/ ModuleBuild
    \/ FooBuild
    \/ FooBuildAgain
    \/ AgainBuilderReturns
    \/ BuildNested
    \/ Phase3
    \/ BuildAgain
    \/ \E s \in Callable, n \in TestNames : Built /\ BindingScope(s, n) /\ UNCHANGED <<buildVars, space, genVars>>

SpecAgain == Init /\ [][NextAgain]_allVars

\* --------------------------------------------- comprehensions and walrus
\* A client that also creates the anonymous scopes and the scopes of a
\* comprehension's iterable expression.  nest() has no no_walrus keyword, so
\* such a scope is made by calling the class: cls(name, parent,
\* no_walrus=True) runs Scope.__init__ and NestedScope.__init__ and leaves
\* parent.nested alone.  GlobalScope(no_walrus=True) makes a root that has
\* the flag.

Construct(s, cls, name, nw) ==
    /\ Cardinality(NestedScopes) < MaxScopes
    /\ kind' = Ext(kind, cls)
    /\ parent' = Ext(parent, s)
    /\ global_scope' = Ext(global_scope, global_scope[s])
    /\ no_walrus' = Ext(no_walrus, nw \/ no_walrus[s])
    /\ nested' = Ext(nested, <<>>)
    /\ vars' = store(Ext(vars, EmptyDict), s, name).v
    /\ phase' = Ext(phase, "new")

InitWalrus ==
    /\ kind = [i \in {Master, Root} |-> IF i = Master THEN "Master" ELSE "Global"]
    /\ parent = [i \in {Master, Root} |-> IF i = Master THEN None ELSE Master]
    /\ global_scope = [i \in {Master, Root} |-> IF i = Master THEN None ELSE Root]
    /\ nested = [i \in {Master, Root} |-> <<>>]
    /\ \E nw \in BOOLEAN : no_walrus = [i \in {Master, Root} |-> i = Root /\ nw]
    /\ vars = [i \in {Master, Root} |-> EmptyDict]
    /\ phase = [i \in {Master, Root} |-> "new"]
    /\ cur = None
    /\ builds = 0
    /\ space = EmptyDict
    /\ ref = EmptyDict
    /\ py = EmptyDict

\* The classes the walrus rules tell apart.
WalrusKinds == {"Function", "Class", "Comprehension"}

NextWalrus ==
    \/ \E s \in Callable, n \in Names : Load(s, n) /\ UNCHANGED <<buildVars, space, genVars>>
    \/ \E s \in Callable, n \in Names : StoreWalrus(s, n) /\ UNCHANGED <<buildVars, space, genVars>>
    \/ \E s \in Callable, cls \in WalrusKinds : \E name \in NestNames(cls) :
            Nest(s, cls, name) /\ UNCHANGED <<cur, builds, space, genVars>>
    \/ \E s \in Callable : Construct(s, "Comprehension", NoName, TRUE) /\ UNCHANGED <<cur, builds, space, genVars>>

SpecWalrus == InitWalrus /\ [][NextWalrus]_allVars

\* ------------------------------------------------------------ Scope.nest
\* A client that nests scopes of all four classes, under scopes that may
\* already have stored the def's name or declared it global.

NextNest ==
    \/ \E s \in Callable, n \in DefNames : Store(s, n) /\ UNCHANGED <<buildVars, space, genVars>>
    \/ \E s \in Callable, n \in DefNames : AddGlobal(s, n) /\ UNCHANGED <<buildVars, space, genVars>>
    \/ \E s \in Callable, cls \in NestKinds : \E name \in NestNames(cls) :
            Nest(s, cls, name) /\ UNCHANGED <<cur, builds, space, genVars>>

SpecNest == Init /\ [][NextNest]_allVars

\* ---------------------------------------------------------- namespaces.py
\* The Namespace tree of formal/namespaces.py.  A Namespace is made for a
\* Scope and its parent is the Namespace of the scope's parent, so it is
\* named by its scope: space[s] is the vars dict of the Namespace of s, one
\* Binding per name that scope s had in its vars when the Namespace was
\* made.  RootNamespace is the Namespace of the MasterScope (namespaces.py
\* calls that class RootScope); its Bindings are the builtins.

\* Most NestedScope objects under the GlobalScope of a tree that gets
\* Namespaces.
MaxSpaces == 2

\* A Binding that has no value attribute.
Unbound == "<unbound>"
\* dict.get() finding no Binding.
NoBindingObject == "<no Binding>"
\* The values a client binds; "0" stands for a value that is false in Python.
Values == {"0", "1"}
\* What a call that returns no value returns.
NoValue == "<no value>"

UnboundLocalError == "UnboundLocalError"
NameError == "NameError"
KeyError == "KeyError"
AttributeError == "AttributeError"

\* Binding.__bool__: hasattr(self, 'value')
Bound(b) == b # Unbound /\ b # NoBindingObject

Get(d, k) == IF Has(d, k) THEN d[k] ELSE NoBindingObject

\* The scopes of the Namespace s and of the Namespaces on its parent chain.
RECURSIVE NamespaceChain(_)
NamespaceChain_own_only(s) == {s}

NamespaceChain(s) ==
    IF s = None THEN {} ELSE {s} \cup NamespaceChain(parent[s])

\* Namespace._binding_namespace: the Namespace on the parent chain whose
\* scope is scope.vars[var]; KeyError when the scope does not have var,
\* AttributeError when the chain ends before that scope is met.
binding_namespace_nearest(sp, v, s, n) ==
    IF ~Has(v[s], n) THEN [ns |-> None, err |-> KeyError]
    ELSE LET holders == {a \in NamespaceChain(s) : Has(sp[a], n) /\ Bound(sp[a][n])} IN
         IF holders = {} THEN [ns |-> None, err |-> AttributeError]
         ELSE [ns |-> CHOOSE a \in holders : \A b \in holders : a >= b, err |-> Ok]

binding_namespace(sp, v, s, n) ==
    IF ~Has(v[s], n) THEN [ns |-> None, err |-> KeyError]
    ELSE IF v[s][n] \in NamespaceChain(s) THEN [ns |-> v[s][n], err |-> Ok]
    ELSE [ns |-> None, err |-> AttributeError]

\* _load_binding of RootNamespace, GlobalNamespace, ClassNamespace and
\* FunctionNamespace: the Binding (here what it holds) or None.
RECURSIVE load_binding(_, _, _)
load_binding_class_alone(sp, t, n) ==
    IF kind[t] = "Global"
    THEN IF Bound(Get(sp[t], n)) THEN [b |-> sp[t][n], err |-> Ok]
         ELSE load_binding(sp, parent[t], n)
    ELSE IF kind[t] = "Class"
    THEN IF ~Has(sp[t], n) THEN [b |-> NoBindingObject, err |-> KeyError]
         ELSE [b |-> sp[t][n], err |-> Ok]
    ELSE [b |-> Get(sp[t], n), err |-> Ok]

load_binding(sp, t, n) ==
    IF kind[t] = "Global"
    THEN IF Bound(Get(sp[t], n)) THEN [b |-> sp[t][n], err |-> Ok]
         ELSE load_binding(sp, parent[t], n)
    ELSE IF kind[t] = "Class"
    THEN IF ~Has(sp[t], n) THEN [b |-> NoBindingObject, err |-> KeyError]
         ELSE IF Bound(sp[t][n]) THEN [b |-> sp[t][n], err |-> Ok]
         ELSE load_binding(sp, global_scope[t], n)
    ELSE [b |-> Get(sp[t], n), err |-> Ok]

NsResult(sp, val, err) == [sp |-> sp, val |-> val, err |-> err]

\* Namespace.load
ns_load_unbound_local(sp, v, s, n) ==
    LET bn == binding_namespace(sp, v, s, n) IN
    IF bn.err # Ok THEN NsResult(sp, NoValue, bn.err)
    ELSE LET lb == load_binding(sp, bn.ns, n) IN
         IF lb.err # Ok THEN NsResult(sp, NoValue, lb.err)
         ELSE IF Bound(lb.b) THEN NsResult(sp, lb.b, Ok)
         ELSE NsResult(sp, NoValue, UnboundLocalError)

ns_load(sp, v, s, n) ==
    LET bn == binding_namespace(sp, v, s, n) IN
    IF bn.err # Ok THEN NsResult(sp, NoValue, bn.err)
    ELSE LET lb == load_binding(sp, bn.ns, n) IN
         IF lb.err # Ok THEN NsResult(sp, NoValue, lb.err)
         ELSE IF Bound(lb.b) THEN NsResult(sp, lb.b, Ok)
         ELSE IF s = bn.ns THEN NsResult(sp, NoValue, UnboundLocalError)
         ELSE NsResult(sp, NoValue, NameError)

\* Namespace.store: self._binding_namespace(var).vars[var].bind(value)
ns_store_in_caller(sp, v, s, n, x) ==
    LET bn == binding_namespace(sp, v, s, n) IN
    IF bn.err # Ok THEN NsResult(sp, NoValue, bn.err)
    ELSE IF ~Has(sp[s], n) THEN NsResult(sp, NoValue, KeyError)
    ELSE NsResult(SetVar(sp, s, n, x), NoValue, Ok)

ns_store(sp, v, s, n, x) ==
    LET bn == binding_namespace(sp, v, s, n) IN
    IF bn.err # Ok THEN NsResult(sp, NoValue, bn.err)
    ELSE IF ~Has(sp[bn.ns], n) THEN NsResult(sp, NoValue, KeyError)
    ELSE NsResult(SetVar(sp, bn.ns, n, x), NoValue, Ok)

\* Namespace.store_walrus: store, except in a ComprehensionNamespace, where
\* it is self.parent.store(var, value).
ns_store_walrus(sp, v, s, n, x) ==
    IF kind[s] = "Comprehension" THEN ns_store(sp, v, parent[s], n, x)
    ELSE ns_store(sp, v, s, n, x)

\* Namespace.delete: unbind when has(var), else whatever load raises.
\* Binding.unbind is del self.value, an AttributeError on an unbound Binding.
ns_delete_removes(sp, v, s, n) ==
    LET bn == binding_namespace(sp, v, s, n) IN
    IF bn.err # Ok THEN NsResult(sp, NoValue, bn.err)
    ELSE LET lb == load_binding(sp, bn.ns, n) IN
         IF lb.err # Ok THEN NsResult(sp, NoValue, lb.err)
         ELSE IF Bound(lb.b)
         THEN IF ~Has(sp[bn.ns], n) THEN NsResult(sp, NoValue, KeyError)
              ELSE IF ~Bound(sp[bn.ns][n]) THEN NsResult(sp, NoValue, AttributeError)
              ELSE NsResult([sp EXCEPT ![bn.ns] = [m \in (DOMAIN sp[bn.ns]) \ {n} |-> sp[bn.ns][m]]],
                            NoValue, Ok)
         ELSE ns_load(sp, v, s, n)

ns_delete_keeps_value(sp, v, s, n) ==
    LET bn == binding_namespace(sp, v, s, n) IN
    IF bn.err # Ok THEN NsResult(sp, NoValue, bn.err)
    ELSE LET lb == load_binding(sp, bn.ns, n) IN
         IF lb.err # Ok THEN NsResult(sp, NoValue, lb.err)
         ELSE IF Bound(lb.b)
         THEN IF ~Has(sp[bn.ns], n) THEN NsResult(sp, NoValue, KeyError)
              ELSE IF ~Bound(sp[bn.ns][n]) THEN NsResult(sp, NoValue, AttributeError)
              ELSE NsResult(sp, NoValue, Ok)
         ELSE ns_load(sp, v, s, n)

ns_delete(sp, v, s, n) ==
    LET bn == binding_namespace(sp, v, s, n) IN
    IF bn.err # Ok THEN NsResult(sp, NoValue, bn.err)
    ELSE LET lb == load_binding(sp, bn.ns, n) IN
         IF lb.err # Ok THEN NsResult(sp, NoValue, lb.err)
         ELSE IF Bound(lb.b)
         THEN IF ~Has(sp[bn.ns], n) THEN NsResult(sp, NoValue, KeyError)
              ELSE IF ~Bound(sp[bn.ns][n]) THEN NsResult(sp, NoValue, AttributeError)
              ELSE NsResult(SetVar(sp, bn.ns, n, Unbound), NoValue, Ok)
         ELSE ns_load(sp, v, s, n)

\* Namespace.__init__: an unbound Binding for every var of the scope.
NewBindings(s) == [n \in DOMAIN vars[s] |-> Unbound]

\* Namespace._nest_scope: the map of Namespaces with the one for scope s added.
nest_scope(sp, s) ==
    [i \in (DOMAIN sp) \cup {s} |-> IF i = s THEN NewBindings(s) ELSE sp[i]]

\* GlobalNamespace(scope): makes the RootNamespace of scope.parent as well.
NewGlobalNamespace ==
    /\ space = EmptyDict
    /\ space' = [i \in {Master, Root} |-> NewBindings(i)]
    /\ UNCHANGED <<treeVars, vars, buildVars, genVars>>

\* Namespace.nest(nested): the Namespace of a scope nested in self.scope.
NamespaceNest(p, s) ==
    /\ p \in DOMAIN space /\ s \notin DOMAIN space
    /\ s \in NestedScopes /\ parent[s] = p
    /\ space' = [i \in (DOMAIN space) \cup {s} |-> IF i = s THEN NewBindings(s) ELSE space[i]]
    /\ UNCHANGED <<treeVars, vars, buildVars, genVars>>

NamespaceStore(s, n, x) ==
    /\ s \in DOMAIN space
    /\ space' = ns_store(space, vars, s, n, x).sp
    /\ UNCHANGED <<treeVars, vars, buildVars, genVars>>

NamespaceDelete(s, n) ==
    /\ s \in DOMAIN space
    /\ space' = ns_delete(space, vars, s, n).sp
    /\ UNCHANGED <<treeVars, vars, buildVars, genVars>>

\* A client that makes a scope tree with direct calls, the MasterScope
\* included (root.parent.store(name) declares a builtin), then makes the
\* Namespaces top-down and stores and deletes values through them.
NextSpaces ==
    \/ \E s \in Scopes, n \in Names :
            space = EmptyDict /\ Store(s, n) /\ UNCHANGED <<buildVars, space, genVars>>
    \/ \E s \in Callable, n \in Names :
            space = EmptyDict /\ AddGlobal(s, n) /\ UNCHANGED <<buildVars, space, genVars>>
    \/ \E s \in Callable, n \in Names :
            space = EmptyDict /\ BindingScope(s, n) /\ UNCHANGED <<buildVars, space, genVars>>
    \/ \E s \in Callable, cls \in DefKinds : \E name \in NestNames(cls) :
            /\ space = EmptyDict /\ Cardinality(NestedScopes) < MaxSpaces
            /\ Nest(s, cls, name) /\ UNCHANGED <<cur, builds, space, genVars>>
    \/ NewGlobalNamespace
    \/ \E p \in Scopes, s \in Scopes : NamespaceNest(p, s)
    \/ \E s \in Scopes, n \in Names, x \in Values : NamespaceStore(s, n, x)
    \/ \E s \in Scopes, n \in Names : NamespaceDelete(s, n)

SpecSpaces == Init /\ [][NextSpaces]_allVars

\* ------------------------------------------------------- ToplevelScope
\* Builder of formal/build.py: Builder.__init__ makes a GlobalScope and a
\* ToplevelScope under it, which is the scope the module's statements are
\* built in.  The scopes of defs and classes are made by calling the class
\* (FunctionScope(name, self.current)), names are loaded, stored and
\* declared, and binding_scope is asked of the scopes.  ToplevelScope is a
\* subclass of Scope alone: its __init__ stores no name in the parent, and
\* it has the nonlocal_scope and binding_scope of Scope.

\* The ToplevelScope of the Builder.
Toplevel == 2

InitToplevel ==
    /\ kind = [i \in {Master, Root, Toplevel} |->
                IF i = Master THEN "Master" ELSE IF i = Root THEN "Global" ELSE "Toplevel"]
    /\ parent = [i \in {Master, Root, Toplevel} |->
                IF i = Master THEN None ELSE IF i = Root THEN Master ELSE Root]
    /\ global_scope = [i \in {Master, Root, Toplevel} |-> IF i = Master THEN None ELSE Root]
    /\ nested = [i \in {Master, Root, Toplevel} |-> <<>>]
    /\ no_walrus = [i \in {Master, Root, Toplevel} |-> FALSE]
    /\ vars = [i \in {Master, Root, Toplevel} |-> EmptyDict]
    /\ phase = [i \in {Master, Root, Toplevel} |-> "new"]
    /\ cur = None
    /\ builds = 0
    /\ space = EmptyDict
    /\ ref = EmptyDict
    /\ py = EmptyDict

\* The scopes at or under the ToplevelScope.
RECURSIVE UnderToplevel(_)
UnderToplevel(s) ==
    IF s \in {Master, Root} THEN FALSE
    ELSE kind[s] = "Toplevel" \/ UnderToplevel(parent[s])

NextToplevel ==
    \/ \E s \in Callable, n \in Names :
            UnderToplevel(s) /\ Load(s, n) /\ UNCHANGED <<buildVars, space, genVars>>
    \/ \E s \in Callable, n \in Names :
            UnderToplevel(s) /\ Store(s, n) /\ UNCHANGED <<buildVars, space, genVars>>
    \/ \E s \in Callable, n \in Names :
            UnderToplevel(s) /\ AddNonlocal(s, n) /\ UNCHANGED <<buildVars, space, genVars>>
    \/ \E s \in Callable, n \in Names :
            UnderToplevel(s) /\ AddGlobal(s, n) /\ UNCHANGED <<buildVars, space, genVars>>
    \/ \E s \in Callable, n \in Names :
            BindingScope(s, n) /\ UNCHANGED <<buildVars, space, genVars>>
    \/ \E s \in Callable, cls \in DefKinds : \E name \in NestNames(cls) :
            /\ UnderToplevel(s)
            /\ Construct(s, cls, name, FALSE) /\ UNCHANGED <<cur, builds, space, genVars>>

SpecToplevel == InitToplevel /\ [][NextToplevel]_allVars

\* ---------------------------------------------------- scopes_test.py gen()
\* gen(depth) of scopes_test.py: a GlobalScope with ScopeParams(0, depth,
\* Local) is built by build_scope, a GlobalNamespace is then built on it by
\* build_ns, and build_ns writes the program test.py as it goes: every scope
\* becomes a class or def block that uses x as its mode says, with a
\* 'test(x, <what space.load('x') gave>)' line wherever maketest() is called.
\* Importing test.py runs the blocks in the order they were written (a def
\* is called right after its block), so the program and build_ns are
\* followed together here: py is the state of the program, space that of the
\* Namespaces.
\*
\* makesubs() nests every scope nested_params() lists, twelve of them (six
\* under nocapt).  The scopes of one list never read or write one another:
\* a build writes x only in the scope itself and, as Used, in its closed
\* ancestors; a Namespace binds x only in itself or, for the scope that
\* assigns in its parent, in the parent; a block assigns x only in itself.
\* A run here follows one scope of the list per scope, in the first or in
\* the second makesubs(), or one in each when the nested scopes are the
\* innermost ones, and the runs together follow every path of the tree
\* gen(MaxDepth) makes.  sys.version_info is taken to be 3.8 or later.

\* The depth gen() is called with.
MaxDepth == 2

\* VarMode
Modes == {"Unused", "Used", "Nonlocal", "Global", "Local", "LocalNoCapt"}

\* VarMode.nocapt_modes
nocapt_modes(nocapt) == IF nocapt THEN {"Unused", "Global", "Local"} ELSE Modes

\* VarMode.is_loc
is_loc(mode) == mode \in {"Local", "LocalNoCapt"}

\* ScopeParams (level is used for the layout of test.py only), with the
\* builder the scope is given.
ScopeParams(depth, mode, nocapt, build) ==
    [depth |-> depth, mode |-> mode, nocapt |-> nocapt, build |-> build]

\* ScopeParams.nest
params_nest(r, mode, build) ==
    ScopeParams(r.depth - 1, mode, r.nocapt \/ mode = "LocalNoCapt", build)

\* scope = GlobalScope(ref=ScopeParams(0, depth, VarMode.Local), build=build_scope)
InitGen ==
    /\ kind = [i \in {Master, Root} |-> IF i = Master THEN "Master" ELSE "Global"]
    /\ parent = [i \in {Master, Root} |-> IF i = Master THEN None ELSE Master]
    /\ global_scope = [i \in {Master, Root} |-> IF i = Master THEN None ELSE Root]
    /\ nested = [i \in {Master, Root} |-> <<>>]
    /\ no_walrus = [i \in {Master, Root} |-> FALSE]
    /\ vars = [i \in {Master, Root} |-> EmptyDict]
    /\ phase = [i \in {Master, Root} |-> "new"]
    /\ cur = None
    /\ builds = 0
    /\ space = EmptyDict
    /\ ref = [i \in {Root} |-> ScopeParams(MaxDepth, "Local", FALSE, "build_scope")]
    /\ py = EmptyDict

\* The positions in nested[s] of the scopes makesubs() nested, and of the
\* scope that assigns to x in s.
Subs(s) == {i \in 1..Len(nested[s]) : ref[nested[s][i]].build = "build_scope"}
Setter(s) == {i \in 1..Len(nested[s]) : ref[nested[s][i]].build # "build_scope"}
\* The scopes of the first and of the second makesubs().
FirstSubs(s) == {i \in Subs(s) : \A j \in Setter(s) : i < j}
SecondSubs(s) == {i \in Subs(s) : \E j \in Setter(s) : i > j}

\* build_scope, up to makesubs(): the status of x is set as the mode says.
\* A SyntaxError of add_nonlocal is caught and the builder returns; phase
\* "subs" is the rest of build_scope.
GenMode ==
    /\ InBuilder /\ ref[cur].build = "build_scope"
    /\ LET m == ref[cur].mode
           res == IF m = "Used" THEN load(vars, cur, "x")
                  ELSE IF m = "Nonlocal" THEN add_nonlocal(vars, cur, "x")
                  ELSE IF is_loc(m) THEN store(vars, cur, "x")
                  ELSE IF m = "Global" THEN add_global(vars, cur, "x")
                  ELSE Result(vars, None, Ok)
       IN /\ vars' = res.v
          /\ phase' = [phase EXCEPT ![cur] =
                IF res.err = Ok THEN "subs"
                ELSE IF m = "Nonlocal" THEN "nested" ELSE "builder"]
          /\ cur' = IF res.err # Ok /\ m # "Nonlocal" THEN Aborted ELSE cur
    /\ UNCHANGED <<treeVars, builds, space, genVars>>

\* makesubs(): scope.nest(cls, name, ref=nested_ref) for one of the
\* nested_params(), before or after the scope that assigns to x is nested.
GenSubs(cls, mode) ==
    /\ cur \in Callable /\ phase[cur] = "subs"
    /\ ref[cur].depth # 0
    /\ mode \in nocapt_modes(ref[cur].nocapt)
    /\ IF Setter(cur) = {} THEN FirstSubs(cur) = {} ELSE SecondSubs(cur) = {}
    /\ ref[cur].depth = 1 \/ Subs(cur) = {}
    /\ NestScope(cur, cls, "f")
    /\ ref' = Put(ref, NewScope, params_nest(ref[cur], mode, "build_scope"))
    /\ UNCHANGED <<cur, builds, space, py>>

\* A scope whose mode is_loc nests the scope that will assign to x in it:
\* a function when it is a class, else a comprehension.
GenSetter ==
    /\ cur \in Callable /\ phase[cur] = "subs"
    /\ is_loc(ref[cur].mode) /\ Setter(cur) = {}
    /\ IF kind[cur] = "Class"
       THEN /\ NestScope(cur, "Function", NoName)
            /\ ref' = Put(ref, NewScope,
                          params_nest(ref[cur], "Unused", "build_set_in_parent_scope"))
       ELSE /\ NestScope(cur, "Comprehension", NoName)
            /\ ref' = Put(ref, NewScope,
                          params_nest(ref[cur], "Unused", "build_comp_scope"))
    /\ UNCHANGED <<cur, builds, space, py>>

\* build_scope returns.
GenReturns ==
    /\ cur \in Callable /\ phase[cur] = "subs"
    /\ is_loc(ref[cur].mode) => Setter(cur) # {}
    /\ ref[cur].depth # 0 => Subs(cur) # {}
    /\ phase' = [phase EXCEPT ![cur] = "nested"]
    /\ UNCHANGED <<treeVars, vars, cur, builds, space, genVars>>

\* build_comp_scope: scope.store_walrus('x');
\* build_set_in_parent_scope: scope.parent.store('x').
GenSetterBuild ==
    /\ InBuilder /\ ref[cur].build # "build_scope"
    /\ LET res == IF ref[cur].build = "build_comp_scope"
                  THEN store_walrus(vars, cur, "x")
                  ELSE store(vars, parent[cur], "x")
       IN /\ vars' = res.v
          /\ phase' = [phase EXCEPT ![cur] = IF res.err = Ok THEN "nested" ELSE "builder"]
          /\ cur' = IF res.err = Ok THEN cur ELSE Aborted
    /\ UNCHANGED <<treeVars, builds, space, genVars>>

\* scope.qualname('x'), the value build_ns assigns to x in scope s.
qualname(s) == ToString(s) \o ".x"

\* None, what maketest() takes for x when the lookup fails.
PyNone == "None"

\* ns = GlobalNamespace(scope, key=43, build=build_ns)
GenGlobalNamespace == Built /\ NewGlobalNamespace

\* ns.build(): build_ns of the Global namespace starts, and with it the
\* module block of test.py.  From here phase[s] is the place build_ns of s
\* has reached: "test0" at the first maketest() and while the first nested
\* namespaces are built, "test1" after the assignment, "test2" after the
\* del, "test3" after the assignment made from the nested scope and while
\* the second nested namespaces are built, "ended" when it has returned.
GenBuildNs ==
    /\ Built /\ space # EmptyDict
    /\ cur' = Root
    /\ phase' = [phase EXCEPT ![Root] = "test0"]
    /\ py' = [i \in {Root} |-> Unbound]
    /\ UNCHANGED <<treeVars, vars, builds, space, ref>>

InNs(p) == cur \in Callable /\ phase[cur] = p

\* status is not Nonlocal in a scope of mode Nonlocal: build_ns writes a
\* compile() check and returns.
NoEnclosed(s) == ref[s].mode = "Nonlocal" /\ status(vars, s, "x") # "Nonlocal"

\* The scopes of a makesubs() that have no Namespace yet, by position.
NotNested(S) == {i \in S : phase[nested[cur][i]] = "done"}

\* space.nest(nested): the Namespace of the next nested scope is made and
\* build_ns runs on it; its block is written and, the program running, entered.
GenNest(S) ==
    LET c == nested[cur][Least(NotNested(S))] IN
    /\ NotNested(S) # {}
    /\ space' = nest_scope(space, c)
    /\ py' = Put(py, c, Unbound)
    /\ cur' = c
    /\ phase' = [phase EXCEPT ![c] = "test0"]
    /\ UNCHANGED <<treeVars, vars, builds, ref>>

GenNestFirst == InNs("test0") /\ GenNest(FirstSubs(cur))
GenNestSecond == InNs("test3") /\ GenNest(SecondSubs(cur))

\* A step of build_ns that calls the Namespace (res) and writes a statement
\* that leaves x of the block as own; an exception ends gen().
GenStep(res, own, next) ==
    /\ space' = res.sp
    /\ py' = Put(py, cur, own)
    /\ cur' = IF res.err = Ok THEN cur ELSE Aborted
    /\ phase' = [phase EXCEPT ![cur] = next]
    /\ UNCHANGED <<treeVars, vars, builds, ref>>

\* write(f'x = "{value}"'); space.store('x', value)
GenStore ==
    /\ InNs("test0") /\ NotNested(FirstSubs(cur)) = {}
    /\ is_loc(ref[cur].mode)
    /\ GenStep(ns_store(space, vars, cur, "x", qualname(cur)), qualname(cur), "test1")

\* write('del x'); space.delete('x')
GenDelete ==
    /\ InNs("test1")
    /\ GenStep(ns_delete(space, vars, cur, "x"), Unbound, "test2")

\* nest = next(nested); space.nest(nest, build=build): the Namespace of the
\* scope that assigns to x is made, and its builder stores the value:
\* build_comp_ns writes '[x := _ for _ in ["{value}"]]' and calls
\* space.store_walrus('x', value); build_set_parent_ns writes a function that
\* sets f_locals["x"] of the class block and calls space.parent.store('x', value).
GenSetX ==
    /\ InNs("test2")
    /\ LET h == nested[cur][Least(Setter(cur))]
           sp == nest_scope(space, h)
           res == IF ref[h].build = "build_comp_scope"
                  THEN ns_store_walrus(sp, vars, h, "x", qualname(parent[h]))
                  ELSE ns_store(sp, vars, parent[h], "x", qualname(parent[h]))
       IN GenStep(res, qualname(parent[h]), "test3")

\* build_ns returns to the build_ns that nested this namespace; a def block
\* is called right after it, so the program is where build_ns is.
GenEnd ==
    /\ \/ InNs("test0") /\ NotNested(FirstSubs(cur)) = {} /\ ~is_loc(ref[cur].mode)
       \/ InNs("test3") /\ NotNested(SecondSubs(cur)) = {}
    /\ phase' = [phase EXCEPT ![cur] = "ended"]
    /\ cur' = IF cur = Root THEN None ELSE parent[cur]
    /\ UNCHANGED <<treeVars, vars, builds, space, genVars>>

NextGen ==
    \/ BuildRoot
    \/ GenMode
    \/ \E cls \in DefKinds, mode \in Modes : GenSubs(cls, mode)
    \/ GenSetter
    \/ GenReturns
    \/ GenSetterBuild
    \/ BuildNested
    \/ Phase3
    \/ GenGlobalNamespace
    \/ GenBuildNs
    \/ GenNestFirst
    \/ GenStore
    \/ GenDelete
    \/ GenSetX
    \/ GenNestSecond
    \/ GenEnd

SpecGen == InitGen /\ [][NextGen]_allVars

\* What maketest() has in value: space.load('x'), None for a NameError
\* (UnboundLocalError is one); any other exception ends gen().
maketest(sp, v, s) ==
    LET r == ns_load(sp, v, s, "x") IN
    IF r.err = Ok THEN r.val
    ELSE IF r.err \in {NameError, UnboundLocalError} THEN PyNone
    ELSE r.err

\* The program test.py.  The block of scope s is 'class' or 'def'; its body
\* has 'nonlocal x' or 'global x' for those modes, the assignments and the
\* del for the is_loc modes, and 'test(x, ...)' lines for every mode but
\* Unused.  What follows is what Python does with those statements.

\* The def block whose x a block refers to when x is free in it, looked for
\* from the enclosing block p outwards: class blocks are passed, a def block
\* that assigns x is it, a def block with 'global x' or the module ends the
\* search with None (x is then a global).
RECURSIVE PyEnclosing(_)
PyEnclosing(p) ==
    IF kind[p] = "Global" THEN None
    ELSE IF kind[p] = "Class" THEN PyEnclosing(parent[p])
    ELSE IF is_loc(ref[p].mode) THEN p
    ELSE IF ref[p].mode = "Global" THEN None
    ELSE PyEnclosing(parent[p])

\* x read as a global: the module's x, then the builtins, which have no x.
PyGlobal == IF Bound(py[Root]) THEN py[Root] ELSE PyNone

\* 'try: test(x, ...)' / 'except NameError: test(None, ...)' in the block of
\* s: the first argument of test().
PyLoad(s) ==
    LET m == ref[s].mode IN
    IF kind[s] = "Global" THEN PyGlobal
    ELSE IF is_loc(m)
         THEN IF Bound(py[s]) THEN py[s]
              ELSE IF kind[s] = "Class" THEN PyGlobal
              ELSE PyNone
    ELSE IF m = "Global" THEN PyGlobal
    ELSE LET t == PyEnclosing(parent[s]) IN
         IF t = None THEN PyGlobal
         ELSE IF Bound(py[t]) THEN py[t] ELSE PyNone

\* ------------------------------------------------ vocabulary of the claims

\* The proper ancestors of s, nearest first, up to and including the root.
RECURSIVE Enclosing(_)
Enclosing(s) ==
    IF s \in {Master, Root} THEN <<>> ELSE <<parent[s]>> \o Enclosing(parent[s])

\* Positions on the enclosing chain of s that hold a closed scope where n is Local.
ClosedLocal(v, s, n) ==
    {i \in 1..Len(Enclosing(s)) :
        /\ kind[Enclosing(s)[i]] \in ClosedKinds
        /\ status(v, Enclosing(s)[i], n) = "Local"}

\* The nearest closed scope on the enclosing chain of s where n is Local.
NearestClosedLocal(v, s, n) == Enclosing(s)[Least(ClosedLocal(v, s, n))]

\* The statuses n has in the closed scopes strictly between s and the
\* nearest closed scope where n is Local.
Between(v, s, n) ==
    {status(v, Enclosing(s)[i], n) : i \in
        {j \in 1..(Least(ClosedLocal(v, s, n)) - 1) : kind[Enclosing(s)[j]] \in ClosedKinds}}

\* The classes between s and that scope.
ClassBetween(v, s, n) ==
    \E j \in 1..(Least(ClosedLocal(v, s, n)) - 1) : kind[Enclosing(s)[j]] = "Class"

Failed(res) == res.err \in StaticBindingErrors

\* ------------------------------------------------------------------ C2

C3_NonlocalNotFound ==
    \A s \in NestedScopes : \A n \in Names :
        (status(vars, s, n) = "Unknown" /\ ClosedLocal(vars, s, n) = {}) =>
            add_nonlocal(vars, s, n).err = NoBinding

\* The call has failed in a function inside a class inside a function, with
\* x Local in the class and in the Global scope: the search it made has left
\* x Used in the function it was called on and in the outer function.
C3_Witness ==
    \E s \in NestedScopes :
        /\ kind[s] \in ClosedKinds
        /\ kind[parent[s]] = "Class"
        /\ status(vars, parent[s], "x") = "Local"
        /\ status(vars, Root, "x") = "Top"
        /\ parent[parent[s]] \in NestedScopes
        /\ ClosedLocal(vars, s, "x") = {}
        /\ status(vars, s, "x") = "Used"
        /\ status(vars, parent[parent[s]], "x") = "Used"

\* ------------------------------------------------------------------ C4

\* C4 as stated: on any scope, the root included, where y has not occurred,
\* load(y) then add_global(y) fails, and add_global(y) then load(y)
\* succeeds and leaves y Global (Top at the root).
C4_AsStated ==
    \A s \in Callable : \A n \in Names :
        status(vars, s, n) = "Unknown" =>
            /\ Failed(add_global(load(vars, s, n).v, s, n))
            /\ LET g == add_global(vars, s, n)
                   l == load(g.v, s, n) IN
               /\ g.err = Ok /\ l.err = Ok
               /\ status(l.v, s, n) = IF s = Root THEN "Top" ELSE "Global"

\* C4, amended: on any scope other than the root where y is not already
\* declared global, load(y) followed by add_global(y) fails with a
\* static-binding error; on any scope, the root included, where y has not
\* occurred, add_global(y) followed by load(y) succeeds and leaves y Global
\* (Top at the root).
C4_OrderSensitive ==
    \A s \in Callable : \A n \in Names :
        /\ (s # Root /\ status(vars, s, n) # "Global") =>
            Failed(add_global(load(vars, s, n).v, s, n))
        /\ status(vars, s, n) = "Unknown" =>
            LET g == add_global(vars, s, n)
                l == load(g.v, s, n) IN
            /\ g.err = Ok /\ l.err = Ok
            /\ status(l.v, s, n) = IF s = Root THEN "Top" ELSE "Global"

\* One nested scope has loaded x, so that add_global(x) now fails there, and
\* another has declared x global and loaded it.
C4_Witness ==
    /\ \E s \in NestedScopes :
        /\ status(vars, s, "x") = "Used"
        /\ add_global(vars, s, "x").err = UsedPriorGlobal
    /\ \E s \in NestedScopes : status(vars, s, "x") = "Global"

\* ------------------------------------------------------------------ C5

\* C5: add_nonlocal(n) fails when n is already Used, Local or Global in the
\* scope; add_global(n) on a nested scope fails when n is already Used, Local
\* or Nonlocal; and after either declaration has succeeded the other one
\* fails, so no name is declared both nonlocal and global in one scope.
C5_DeclarationFirst ==
    \A s \in Callable : \A n \in Names :
        /\ status(vars, s, n) \in {"Used", "Local", "Global", "Top"} =>
            Failed(add_nonlocal(vars, s, n))
        /\ (s # Root /\ status(vars, s, n) \in {"Used", "Local", "Nonlocal"}) =>
            Failed(add_global(vars, s, n))
        /\ LET a == add_nonlocal(vars, s, n) IN
           a.err = Ok => /\ Failed(add_global(a.v, s, n))
                         /\ status(add_global(a.v, s, n).v, s, n) = "Nonlocal"
        /\ LET g == add_global(vars, s, n) IN
           g.err = Ok => /\ Failed(add_nonlocal(g.v, s, n))
                         /\ is_global(status(add_nonlocal(g.v, s, n).v, s, n))

\* x is declared nonlocal in one nested scope and global in another, and
\* the opposite declaration is refused in both.
C5_Witness ==
    /\ \E s \in NestedScopes :
        /\ status(vars, s, "x") = "Nonlocal"
        /\ add_global(vars, s, "x").err = NonlocalAndGlobal
    /\ \E s \in NestedScopes :
        /\ status(vars, s, "x") = "Global"
        /\ add_nonlocal(vars, s, "x").err = NonlocalAndGlobal

\* ------------------------------------------------------------------ C7

Locals(s) == {n \in DOMAIN vars[s] : is_local(status(vars, s, n))}
Nonlocals(s) == {n \in DOMAIN vars[s] : is_nonlocal(status(vars, s, n))}
Globals(s) == {n \in DOMAIN vars[s] : is_global(status(vars, s, n))}

Disjoint(s) ==
    /\ Locals(s) \cap Nonlocals(s) = {}
    /\ Locals(s) \cap Globals(s) = {}
    /\ Nonlocals(s) \cap Globals(s) = {}

\* C7 as stated: in every scope, the Global root included, the names
\* classified Local, Nonlocal and Global are pairwise disjoint.
C7_AsStated == \A s \in Callable : Disjoint(s)

\* C7, amended: in every scope other than the Global root, and after every
\* prefix of mutation calls, the names classified Local, Nonlocal and Global
\* are pairwise disjoint; in the root every classified name is Top, which
\* counts as Local and as Global, and none is Nonlocal.
C7_Disjoint ==
    /\ \A s \in NestedScopes : Disjoint(s)
    /\ Locals(Root) = Globals(Root)
    /\ Nonlocals(Root) = {}

\* Nested scopes hold x as Local, as Nonlocal and as Global, and the root
\* holds it as Top.
C7_Witness ==
    /\ \E s \in NestedScopes : "x" \in Locals(s)
    /\ \E s \in NestedScopes : "x" \in Nonlocals(s)
    /\ \E s \in NestedScopes : "x" \in Globals(s)
    /\ "x" \in Locals(Root)

\* ------------------------------------------------------------------ C8

Classified == {"Local", "Nonlocal", "Global", "Top"}

\* C8: store(n) on a scope where n is Unknown or Used makes n Local there
\* (Top in the root) with the scope itself as binding scope and touches no
\* other scope; where n is already Local or Nonlocal it changes nothing in
\* any scope; and no load or store, on any scope, changes a classification
\* that is Local, Nonlocal or Global or its binding scope.
C8_Store ==
    \A s \in Callable : \A n \in Names :
        LET res == store(vars, s, n) IN
        /\ status(vars, s, n) \in {"Unknown", "Used"} =>
            /\ res.err = Ok /\ res.r = s
            /\ is_local(status(res.v, s, n))
            /\ res.v[s][n] = s
            /\ \A t \in Scopes \ {s} : res.v[t] = vars[t]
            /\ \A m \in DOMAIN vars[s] \ {n} : res.v[s][m] = vars[s][m]
        /\ (is_local(status(vars, s, n)) \/ is_nonlocal(status(vars, s, n))) =>
            res.v = vars /\ res.err = Ok
        /\ \A t \in Callable :
            status(vars, t, n) \in Classified =>
                /\ res.v[t][n] = vars[t][n]
                /\ status(res.v, t, n) = status(vars, t, n)
                /\ load(vars, s, n).v[t][n] = vars[t][n]

\* x is Used in one nested scope, where the next store makes it Local, and
\* Nonlocal in another, where stores have no effect.
C8_Witness ==
    /\ \E s \in NestedScopes : status(vars, s, "x") = "Used"
    /\ \E s \in NestedScopes : status(vars, s, "x") = "Nonlocal"
    /\ \E s \in NestedScopes : status(vars, s, "x") = "Local"

\* ------------------------------------------------------------------ C9

\* C9: store(n) on a nested scope where n is declared Global is redirected
\* to the Global scope: afterwards n is Top in the Global scope, and in the
\* nested scope n is still Global, bound to the Global scope.
C9_StoreRedirected ==
    \A s \in NestedScopes : \A n \in Names :
        status(vars, s, n) = "Global" =>
            LET res == store(vars, s, n) IN
            /\ res.err = Ok /\ res.r = Root
            /\ status(res.v, Root, n) = "Top"
            /\ status(res.v, s, n) = "Global"
            /\ res.v[s][n] = Root

\* A nested scope declares x global while the Global scope does not hold x
\* yet: the store that follows is the redirected one.
C9_Witness ==
    \E s \in NestedScopes :
        /\ status(vars, s, "x") = "Global"
        /\ status(vars, Root, "x") = "Unknown"

\* ------------------------------------------------------------------ C10

\* C10: whenever a nested scope classifies n as Global, the vars of the
\* Global scope contains n.
C10_GlobalKnowsName ==
    \A s \in NestedScopes : \A n \in Names :
        status(vars, s, n) = "Global" => Has(vars[Root], n)

\* ------------------------------------------------------------------ C1

\* C1: in the tree Global -> class C -> function foo built by test(), where
\* foo stores self and a and declares x global, binding_scope gives: from
\* foo, the names C, foo, x and blah resolve to the Global scope and self
\* and a to foo; from C, foo resolves to C and the names C, self, a, x and
\* blah to the Global scope.  No name resolves to C from foo: a name bound
\* in the class body is not what the nested function sees.  This holds
\* whichever of the queries have been made before.
C1_ClassInvisible ==
    Built =>
        /\ \A n \in {"C", "foo", "x", "blah"} : binding_scope(vars, TestFoo, n).r = Root
        /\ \A n \in {"self", "a"} : binding_scope(vars, TestFoo, n).r = TestFoo
        /\ binding_scope(vars, TestC, "foo").r = TestC
        /\ \A n \in {"C", "self", "a", "x", "blah"} : binding_scope(vars, TestC, n).r = Root
        /\ \A n \in TestNames : binding_scope(vars, TestFoo, n).r # TestC
        /\ \A n \in TestNames : binding_scope(vars, TestFoo, n).err = Ok
        /\ \A n \in TestNames : binding_scope(vars, TestC, n).err = Ok

\* The tree of test() is built, foo is bound in the class body only, and
\* every query of test() has been made.
C1_Witness ==
    /\ Built
    /\ kind[TestC] = "Class" /\ parent[TestC] = Root
    /\ kind[TestFoo] = "Function" /\ parent[TestFoo] = TestC
    /\ status(vars, TestC, "foo") = "Local"
    /\ status(vars, TestFoo, "x") = "Global"
    /\ DOMAIN vars[TestFoo] = TestNames
    /\ DOMAIN vars[TestC] = TestNames
    /\ vars[TestFoo]["foo"] = Root

\* ------------------------------------------------------------------ C6

\* Phase 3 of build() of s is the next step.
Phase3Ready(s) == cur = s /\ phase[s] = "nested" /\ NotBuilt(s) = {}

Used(s) == {n \in DOMAIN vars[s] : vars[s][n] = None}

RECURSIVE InIterable(_)
InIterable(s) ==
    IF s = Master THEN no_walrus[s] ELSE no_walrus[s] \/ InIterable(parent[s])

\* C11: store_walrus(n) fails with a static-binding error on every scope
\* that has no_walrus set; no_walrus is inherited, so a scope created under
\* a parent that has it has it too and the failure holds for every
\* descendant of a no_walrus scope; the failed call leaves vars, and so n's
\* classification, as it was.
C11_NoWalrus ==
    /\ \A s \in NestedScopes : no_walrus[parent[s]] => no_walrus[s]
    /\ \A s \in Callable : \A n \in Names :
            InIterable(s) =>
                /\ Failed(store_walrus(vars, s, n))
                /\ store_walrus(vars, s, n).v = vars

\* A function nested in a comprehension that was created with no_walrus
\* under a root without it: the function has the flag, x is Used in it, and
\* store_walrus raises there.
C11_Witness ==
    \E s \in NestedScopes :
        /\ kind[s] = "Function"
        /\ kind[parent[s]] = "Comprehension"
        /\ no_walrus[parent[s]] /\ no_walrus[s] /\ ~no_walrus[Root]
        /\ status(vars, s, "x") = "Used"
        /\ store_walrus(vars, s, "x").err = WalrusIterable

\* ----------------------------------------------------------------- C12

\* The nearest non-comprehension scope at or above s.
RECURSIVE NonComprehension(_)
NonComprehension(s) ==
    IF kind[s] = "Comprehension" THEN NonComprehension(parent[s]) ELSE s

\* C12: store_walrus(n) fails with a static-binding error whenever the
\* nearest enclosing non-comprehension scope of the scope it is called on is
\* a Class scope: on the Class scope itself and on a Comprehension scope, or
\* chain of them, nested directly in a Class scope.
C12_WalrusInClass ==
    \A s \in Callable : \A n \in Names :
        kind[NonComprehension(s)] = "Class" => Failed(store_walrus(vars, s, n))

\* ----------------------------------------------------------------- C13

\* C13: a successful store_walrus(n) on a Comprehension scope makes n Local
\* in the nearest enclosing non-comprehension scope, where it was Unknown or
\* Used, and does not make n Local in the Comprehension scope itself.
C13_WalrusTarget ==
    \A s \in Callable : \A n \in Names :
        LET res == store_walrus(vars, s, n)
            t == NonComprehension(s) IN
        (/\ kind[s] = "Comprehension"
         /\ res.err = Ok
         /\ status(vars, t, n) \in {"Unknown", "Used"}
         /\ status(vars, s, n) \in {"Unknown", "Used"}) =>
            /\ is_local(status(res.v, t, n))
            /\ ~is_local(status(res.v, s, n))

\* ----------------------------------------------------------------- C14

\* C14: nest(kind, name) appends the new scope as the last element of the
\* current scope's nested and changes vars only for Function and Class,
\* where it has the effect of store(name); for Lambda and Comprehension
\* vars is left as it was.
C14_Nest ==
    [][\A s \in Callable :
        nested'[s] # nested[s] =>
            /\ nested'[s] = Append(nested[s], NewScope)
            /\ kind'[NewScope] \in DefKinds =>
                \E name \in DefNames :
                    \A i \in Scopes : vars'[i] = store(vars, s, name).v[i]
            /\ kind'[NewScope] \in AnonKinds =>
                \A i \in Scopes : vars'[i] = vars[i]]_allVars

\* ----------------------------------------------------------------- C15

\* What the tree says about every name: its status and binding scope in
\* every scope.
Classification ==
    [s \in Scopes |-> [n \in DOMAIN vars[s] |-> <<status(vars, s, n), vars[s][n]>>]]

\* C15: build() run a second time on the root of a built tree raises no
\* error and leaves the classification of every name in every scope of the
\* tree as the first build left it: no step of a later build changes it.
C15_BuildAgain ==
    [][(builds >= 1 /\ cur \in Callable) =>
        /\ cur' # Aborted
        /\ Classification' = Classification]_allVars

\* ----------------------------------------------------------------- C16

Resolved(v, s, n) == Has(v[s], n) /\ v[s][n] # None

\* C16 as stated: once build() of the root has returned, no binding_scope
\* query on any scope, for a name known or unknown to it, changes the vars
\* of any scope.
C16_AsStated ==
    Built =>
        \A s \in Callable : \A n \in Names : binding_scope(vars, s, n).v = vars

\* C16, amended: once build() of the root has returned, binding_scope(n) on
\* a scope that has a binding scope for n leaves the vars of every scope
\* unchanged, and no query changes an entry that holds a binding scope.
\* binding_scope(n) on a scope where n is Unknown or Used raises nothing,
\* records a binding scope for n in that scope and may add n as Used to
\* closed scopes on the enclosing chain; nothing else changes.
C16_Queries ==
    Built =>
        \A s \in Callable : \A n \in Names :
            LET res == binding_scope(vars, s, n) IN
            /\ res.err = Ok
            /\ Resolved(vars, s, n) => res.v = vars
            /\ Resolved(res.v, s, n) /\ res.v[s][n] = res.r
            /\ \A i \in Scopes :
                /\ Resolved(vars, i, n) => res.v[i] = vars[i]
                /\ res.v[i] # vars[i] =>
                    \/ i = s
                    \/ /\ \E j \in 1..Len(Enclosing(s)) : Enclosing(s)[j] = i
                       /\ kind[i] \in ClosedKinds
                       /\ res.v[i] = Put(vars[i], n, None)

\* On the built tree a function nested in a function has been asked for x,
\* which neither had seen: x is now Global in the inner function and Used,
\* with no binding scope, in the outer one.
C16_Witness ==
    /\ Built
    /\ \E s \in NestedScopes :
        /\ kind[s] = "Function" /\ kind[parent[s]] = "Function"
        /\ status(vars, s, "x") = "Global"
        /\ status(vars, parent[s], "x") = "Used"

\* ----------------------------------------------------------------- C17

\* set(n, x), get(n), delete(n), get(n), set(n, y), get(n) in Namespace s.
RoundTrip(s, n, x, y) ==
    LET a == ns_store(space, vars, s, n, x)
        b == ns_load(a.sp, vars, s, n)
        c == ns_delete(a.sp, vars, s, n)
        d == ns_load(c.sp, vars, s, n)
        e == ns_store(c.sp, vars, s, n, y)
        f == ns_load(e.sp, vars, s, n)
    IN  [set |-> a, get |-> b, del |-> c, unbound |-> d, again |-> f, reset |-> e]

\* What the Global namespace answers for n: its own value, else the builtin.
GlobalValue(sp, n) ==
    IF Bound(Get(sp[Root], n)) THEN sp[Root][n] ELSE Get(sp[Master], n)

C19_Builtins ==
    Root \in DOMAIN space =>
        \A n \in Names :
            ~Bound(Get(space[Root], n)) =>
                LET r == ns_load(space, vars, Root, n) IN
                IF Bound(Get(space[Master], n))
                THEN r.err = Ok /\ r.val = space[Master][n]
                ELSE r.err = NameError

\* ----------------------------------------------------------------- C20

\* C20: when a Class namespace is the binding namespace of a name and its
\* Binding is unbound, get returns what the Global namespace, and through it
\* the builtins, hold for the name, and fails only when they hold nothing;
\* a get from a closed namespace nested in the class is the same whatever
\* the Class namespace holds for the name.
C20_ClassFallback ==
    \A c \in DOMAIN space : \A n \in Names :
        (kind[c] = "Class" /\ Has(space[c], n)) =>
            /\ (binding_namespace(space, vars, c, n).ns = c /\ space[c][n] = Unbound) =>
                LET r == ns_load(space, vars, c, n) IN
                IF Bound(GlobalValue(space, n))
                THEN r.err = Ok /\ r.val = GlobalValue(space, n)
                ELSE r.err = UnboundLocalError
            /\ \A f \in DOMAIN space :
                (kind[f] \in ClosedKinds /\ c \in NamespaceChain(f)) =>
                    \A b \in Values \cup {Unbound} :
                        LET r1 == ns_load(space, vars, f, n)
                            r2 == ns_load(SetVar(space, c, n, b), vars, f, n) IN
                        r1.val = r2.val /\ r1.err = r2.err

\* A class namespace holds "0" for its local x, the Global namespace holds
\* "1", and the function nested in the class, where x is Global, gets "1".
C20_Witness ==
    \E c \in DOMAIN space, f \in DOMAIN space :
        /\ kind[c] = "Class" /\ kind[f] = "Function" /\ parent[f] = c
        /\ status(vars, c, "x") = "Local"
        /\ status(vars, f, "x") = "Global"
        /\ space[c]["x"] = "0"
        /\ Get(space[Root], "x") = "1"
        /\ ns_load(space, vars, c, "x").val = "0"
        /\ ns_load(space, vars, f, "x").val = "1"

\* ----------------------------------------------------------------- C21

AllNames == Names \cup DefNames

\* sp2 differs from space at most in the Binding of n in Namespace t.
OnlyBinding(sp2, t, n) ==
    /\ DOMAIN sp2 = DOMAIN space
    /\ \A u \in DOMAIN space :
        /\ DOMAIN sp2[u] = DOMAIN space[u]
        /\ \A m \in DOMAIN space[u] : (u # t \/ m # n) => sp2[u][m] = space[u][m]

\* C21: set(n, x) and delete(n) change only the Binding of n in the binding
\* namespace of n; the Binding of every other name, and the Binding of n in
\* every other namespace (the calling one, the Global namespace and the
\* builtins when they are only fallbacks), stay as they are.
C21_Frame ==
    \A s \in DOMAIN space : \A n \in AllNames : \A x \in Values :
        LET bn == binding_namespace(space, vars, s, n) IN
        /\ OnlyBinding(ns_store(space, vars, s, n, x).sp, bn.ns, n)
        /\ OnlyBinding(ns_delete(space, vars, s, n).sp, bn.ns, n)

\* A nested namespace has an unbound Binding of its own for x, which its
\* scope declares global; the builtins hold "0" for x; set(x, "1") from the
\* nested namespace binds "1" in the Global namespace and delete(x) from it
\* unbinds the Global namespace's "1".
C21_Witness ==
    \E s \in DOMAIN space :
        /\ s \in NestedScopes
        /\ status(vars, s, "x") = "Global"
        /\ Get(space[s], "x") = Unbound
        /\ Get(space[Master], "x") = "0"
        /\ Get(space[Root], "x") = "1"
        /\ ns_store(space, vars, s, "x", "0").sp[Root]["x"] = "0"
        /\ ns_delete(space, vars, s, "x").err = Ok
        /\ ns_delete(space, vars, s, "x").sp[Root]["x"] = Unbound

\* ----------------------------------------------------------------- C22

\* C22: set(n, x) from a namespace whose scope classifies n as Global
\* succeeds, also when the Global namespace has no Binding for n yet, and a
\* get(n) from the same namespace then returns x.
C22_GlobalStore ==
    \A s \in DOMAIN space : \A n \in Names : \A x \in Values :
        status(vars, s, n) = "Global" =>
            LET a == ns_store(space, vars, s, n, x)
                b == ns_load(a.sp, vars, s, n) IN
            a.err = Ok /\ b.err = Ok /\ b.val = x

\* ----------------------------------------------------------------- C23

\* C23: delete(n), for a name the calling scope has a binding scope for,
\* has two outcomes: when the Binding of n in the binding namespace is bound
\* it becomes unbound; otherwise the call changes nothing and fails with
\* unbound-local or name-not-found, the error get(n) raises in that state
\* when get(n) raises one, also when a fallback (the Global namespace or the
\* builtins) holds a value for n.
C23_Delete ==
    \A s \in DOMAIN space : \A n \in Names :
        Resolved(vars, s, n) =>
            LET bn == binding_namespace(space, vars, s, n)
                d == ns_delete(space, vars, s, n)
                g == ns_load(space, vars, s, n) IN
            IF Bound(Get(space[bn.ns], n))
            THEN d.err = Ok /\ d.sp[bn.ns][n] = Unbound
            ELSE /\ d.err \in {UnboundLocalError, NameError}
                 /\ g.err # Ok => d.err = g.err
                 /\ d.sp = space

\* ----------------------------------------------------------------- C24

\* C24: a Namespace made for a Scope holds a Binding for exactly the names
\* the Scope classifies Local (Top in the Global scope): every such name has
\* one and no name the Scope classifies Nonlocal, Global or Used has one.
C24_LocalBindings ==
    \A s \in DOMAIN space :
        DOMAIN space[s] = {n \in DOMAIN vars[s] : is_local(status(vars, s, n))}

\* ----------------------------------------------------------------- C25

\* C25: every Binding of a Namespace is unbound when the Namespace is made,
\* and no step (a set, a delete, the making of another Namespace) removes a
\* Namespace or a Binding: the names that have a Binding in a Namespace
\* never shrink, and delete leaves the Binding in place, unbound.
C25_BindingsStay ==
    [][/\ \A s \in DOMAIN space :
            s \in DOMAIN space' /\ DOMAIN space[s] \subseteq DOMAIN space'[s]
       /\ \A s \in (DOMAIN space') \ (DOMAIN space) :
            \A n \in DOMAIN space'[s] : space'[s][n] = Unbound]_allVars

\* A nested namespace holds a value for its local x while another Binding
\* in the tree is unbound, and delete(x) there succeeds and leaves the
\* Binding of x in the namespace, unbound.
C25_Witness ==
    \E s \in DOMAIN space :
        /\ s \in NestedScopes
        /\ status(vars, s, "x") = "Local"
        /\ Bound(Get(space[s], "x"))
        /\ \E t \in DOMAIN space : \E m \in DOMAIN space[t] : space[t][m] = Unbound
        /\ LET d == ns_delete(space, vars, s, "x") IN
            d.err = Ok /\ Has(d.sp[s], "x") /\ d.sp[s]["x"] = Unbound

\* ----------------------------------------------------------------- C26

\* C26 as stated: exactly one Global scope exists, it is the root of the
\* tree and its parent is null, no other scope has a null parent, and the
\* global_scope of every scope is that root.
C26_AsStated ==
    /\ {s \in Scopes : kind[s] = "Global"} = {Root}
    /\ parent[Root] = None
    /\ \A s \in Scopes \ {Root} : parent[s] # None
    /\ \A s \in Scopes : global_scope[s] = Root

\* C26, amended: exactly one Global scope exists; its parent is the
\* MasterScope made with it, which is the only scope with a null parent and
\* has no global_scope; every other scope is a NestedScope whose parent chain
\* leads to the Global scope, and the global_scope of the Global scope and of
\* every scope under it is the Global scope.
C26_OneGlobal ==
    /\ {s \in Scopes : kind[s] = "Global"} = {Root}
    /\ {s \in Scopes : kind[s] = "Master"} = {Master}
    /\ parent[Root] = Master
    /\ {s \in Scopes : parent[s] = None} = {Master}
    /\ global_scope[Master] = None
    /\ \A s \in Callable : global_scope[s] = Root
    /\ \A s \in NestedScopes :
        /\ kind[s] \in NestKinds
        /\ Enclosing(s)[Len(Enclosing(s))] = Root

\* An anonymous scope nested two levels under the Global scope.
C26_Witness ==
    \E s \in NestedScopes :
        /\ kind[s] \in AnonKinds
        /\ parent[s] \in NestedScopes
        /\ parent[parent[s]] = Root
        /\ global_scope[s] = Root

\* ----------------------------------------------------------------- C27

\* C27: add_nonlocal(n) on the Global scope fails with a static-binding
\* error for every name n, whatever the Global scope and the scopes under it
\* hold for n, and changes no vars.
C27_ModuleLevel ==
    \A n \in AllNames :
        LET r == add_nonlocal(vars, Root, n) IN
        Failed(r) /\ r.v = vars

\* x is Top in the Global scope and Local in a function nested in it, the
\* def name f is Top too, and add_nonlocal on the Global scope fails for
\* both.
C27_Witness ==
    /\ status(vars, Root, "x") = "Top"
    /\ status(vars, Root, "f") = "Top"
    /\ \E s \in NestedScopes : kind[s] = "Function" /\ status(vars, s, "x") = "Local"
    /\ add_nonlocal(vars, Root, "x").err = ModuleLevel
    /\ add_nonlocal(vars, Root, "f").err = ModuleLevel

\* ----------------------------------------------------------------- C28

\* C28: load(n) never fails; on a scope where n is Unknown it makes n Used
\* there, on a scope where n has any other classification it changes
\* nothing, and in both cases the other names of the scope and the vars of
\* every other scope stay as they are.
C28_Load ==
    \A s \in Scopes : \A n \in AllNames :
        LET r == load(vars, s, n) IN
        /\ r.err = Ok
        /\ IF status(vars, s, n) = "Unknown"
           THEN status(r.v, s, n) = "Used" /\ r.r = None
           ELSE r.v = vars /\ r.r = vars[s][n]
        /\ DOMAIN r.v = DOMAIN vars
        /\ \A t \in Scopes : \A m \in DOMAIN vars[t] :
                Has(r.v[t], m) /\ r.v[t][m] = vars[t][m]
        /\ \A t \in Scopes : \A m \in DOMAIN r.v[t] :
                Has(vars[t], m) \/ (t = s /\ m = n)

\* x is Used in one nested scope after a load, Nonlocal in another, where a
\* load changes nothing, and Unknown in the Global scope, where a load makes
\* it Used.
C28_Witness ==
    /\ \E s \in NestedScopes : status(vars, s, "x") = "Used"
    /\ \E t \in NestedScopes :
        /\ status(vars, t, "x") = "Nonlocal"
        /\ load(vars, t, "x").v = vars
    /\ status(vars, Root, "x") = "Unknown"
    /\ status(load(vars, Root, "x").v, Root, "x") = "Used"

\* ----------------------------------------------------------------- C30

\* T may be the binding scope of n for scope s in the vars map v: s itself,
\* the Global root, or a closed proper ancestor of s where n is Local.
MayBind(v, s, n, T) ==
    \/ T = s
    \/ T = Root
    \/ \E i \in 1..Len(Enclosing(s)) :
        /\ Enclosing(s)[i] = T
        /\ kind[T] \in ClosedKinds
        /\ Has(v[T], n) /\ v[T][n] = T

\* C30: in every reachable state and for every scope S and name n, a binding
\* scope T recorded in S for n, or returned by S.binding_scope(n), is S
\* itself, the Global root, or a closed proper ancestor of S in which n is
\* Local; a Class scope is the binding scope of a name only in itself.
C30_BindingScopes ==
    /\ \A s \in Scopes : \A n \in DOMAIN vars[s] :
            vars[s][n] # None =>
                /\ MayBind(vars, s, n, vars[s][n])
                /\ kind[vars[s][n]] = "Class" => vars[s][n] = s
    /\ \A s \in Callable : \A n \in AllNames :
            LET r == binding_scope(vars, s, n) IN
            /\ r.err = Ok /\ r.r # None
            /\ MayBind(r.v, s, n, r.r)
            /\ kind[r.r] = "Class" => r.r = s

\* x is Local in a function, Local in a class nested in it, and Nonlocal in
\* a function nested in that class, whose binding scope for x is the outer
\* function, not the class.
C30_Witness ==
    \E f \in NestedScopes, c \in NestedScopes, g \in NestedScopes :
        /\ kind[f] = "Function" /\ kind[c] = "Class" /\ kind[g] = "Function"
        /\ parent[c] = f /\ parent[g] = c
        /\ status(vars, f, "x") = "Local"
        /\ status(vars, c, "x") = "Local"
        /\ status(vars, g, "x") = "Nonlocal"
        /\ binding_scope(vars, g, "x").r = f

\* ---------------------------------------------------------------- C29

\* The places of build_ns where maketest() writes a test line.
TestPoints == {"test0", "test1", "test2", "test3"}

\* build_ns of scope s is at a place where a test line for x has been
\* written: every mode but Unused has the first one, a scope of mode
\* Nonlocal only when 'nonlocal x' was written, and the other three follow
\* the assignment, the del and the assignment from the nested scope.
AtTest(s) ==
    /\ cur = s /\ phase[s] \in TestPoints
    /\ ref[s].mode # "Unused"
    /\ ~NoEnclosed(s)

NoneUsed == \A s \in Scopes : Used(s) = {}

\* C31: the step in which build() of the root returns without error leaves
\* no name Used in any scope of the tree: every entry of every scope's vars
\* has a binding scope, the entries that the resolution of a descendant
\* added to an enclosing scope included.
C31_NoneUsed ==
    [][(cur = Root /\ cur' = None) => NoneUsed']_allVars

\* build() of the root has returned: x is Global in a function and in the
\* function nested in it, the Global scope has no x, and no scope holds a
\* Used name.
C31_Witness ==
    /\ Built /\ builds = 1 /\ NoneUsed
    /\ \E f \in NestedScopes, g \in NestedScopes :
        /\ parent[g] = f /\ parent[f] = Root
        /\ kind[f] = "Function" /\ kind[g] = "Function"
        /\ status(vars, g, "x") = "Global"
        /\ status(vars, f, "x") = "Global"
        /\ status(vars, Root, "x") = "Unknown"

\* ----------------------------------------------------------------- C32

\* d is nested, at any depth, in s.
Descendant(d, s) == \E i \in 1..Len(Enclosing(d)) : Enclosing(d)[i] = s

\* build() of s has been entered and has not returned.
InBuild(s) == phase[s] \in {"builder", "nested"}

\* C32: at every moment of build() of the root, a scope whose Phase 3 is
\* about to run or has run has no descendant whose build() is not complete;
\* the nested scopes of a scope are built one after the other in nested
\* order, each one with all its descendants before the next is entered; and
\* build() of a scope is entered only when the builder of every scope that
\* encloses it has returned.
C32_BuildOrder ==
    /\ \A s \in Callable : \A d \in NestedScopes :
            (Descendant(d, s) /\ (phase[s] = "done" \/ Phase3Ready(s)))
                => phase[d] = "done"
    /\ \A s \in Callable : \A i \in 1..Len(nested[s]) : \A j \in 1..Len(nested[s]) :
            (i < j /\ phase[nested[s][j]] # "new") =>
                /\ phase[nested[s][i]] = "done"
                /\ \A d \in NestedScopes :
                        Descendant(d, nested[s][i]) => phase[d] = "done"
    /\ \A d \in NestedScopes : \A s \in Callable :
            (Descendant(d, s) /\ phase[d] # "new") => phase[s] \in {"nested", "done"}
    /\ \A s \in Callable : \A d \in Callable :
            (InBuild(s) /\ InBuild(d) /\ s # d) => (Descendant(d, s) \/ Descendant(s, d))

\* The builder of the second scope nested in the root runs; the first one
\* and the scope nested in it have been built.
C32_Witness ==
    \E a \in NestedScopes, b \in NestedScopes, c \in NestedScopes :
        /\ Len(nested[Root]) = 2
        /\ nested[Root][1] = a /\ nested[Root][2] = b
        /\ parent[c] = a
        /\ phase[a] = "done" /\ phase[c] = "done"
        /\ cur = b /\ phase[b] = "builder"

\* ----------------------------------------------------------------- C33

\* C33: when build() of the root of a program without global declarations
\* has returned, a nested scope S in which a name n is Global has no closed
\* scope on its enclosing chain in which n is Local, also when n became
\* Local there through a store that the builder of a scope nested later made
\* in its parent after S was resolved.
C33_FinalTree ==
    Built =>
        \A s \in NestedScopes : \A n \in Names :
            status(vars, s, n) = "Global" => ClosedLocal(vars, s, n) = {}

\* ----------------------------------------------------------------- C34

\* C34: add_nonlocal(n) that fails with 'no binding found' leaves the scope
\* it was called on as it was before the call, n Unknown in it, and a
\* Phase 3 of that scope run afterwards does not classify n in it.
C34_FailureLeavesScope ==
    \A s \in NestedScopes : \A n \in Names :
        LET res == add_nonlocal(vars, s, n) IN
        res.err = NoBinding =>
            /\ res.v[s] = vars[s]
            /\ status(res.v, s, n) = "Unknown"
            /\ ~Has(phase3(res.v, s)[s], n)

\* ----------------------------------------------------------------- C35

\* The scopes that enclose s, the Global scope left out.
EnclosingNested(s) == {Enclosing(s)[i] : i \in 1..Len(Enclosing(s))} \ {Root}

\* C35: during build(), an add_nonlocal made by the builder of a scope and
\* the Phase 3 resolution of a scope leave the vars of every non-root scope
\* that encloses it as they were: no entry is added there and no name
\* changes its classification there.
C35_EnclosingUntouched ==
    \A s \in NestedScopes : \A e \in EnclosingNested(s) :
        /\ (cur = s /\ phase[s] = "builder") =>
                \A n \in Names : add_nonlocal(vars, s, n).v[e] = vars[e]
        /\ Phase3Ready(s) => phase3(vars, s)[e] = vars[e]

\* ----------------------------------------------------------------- C36

\* The Namespaces whose scope records T as the binding scope of n.
Sharing(T, n) == {d \in DOMAIN space : Has(vars[d], n) /\ vars[d][n] = T}

\* C36: the Namespaces whose scopes resolve a name n to the same binding
\* scope T share one value: store(n, x) from any of them raises nothing and
\* load(n) then returns x from every one of them and from the Namespace of
\* T, and after a delete(n) from any of them load(n) fails from all of them.
C36_SharedCell ==
    \A s \in DOMAIN space : \A n \in Names :
        (Has(vars[s], n) /\ vars[s][n] # None) =>
            LET T == vars[s][n]
                all == Sharing(T, n) \cup {T}
            IN
            /\ \A x \in Values :
                    LET st == ns_store(space, vars, s, n, x) IN
                    /\ st.err = Ok
                    /\ \A d \in all :
                            /\ ns_load(st.sp, vars, d, n).err = Ok
                            /\ ns_load(st.sp, vars, d, n).val = x
            /\ LET del == ns_delete(space, vars, s, n) IN
                    del.err = Ok =>
                        \A d \in all : ns_load(del.sp, vars, d, n).err # Ok

\* ----------------------------------------------------------------- C37

\* The Namespaces of all the scopes of the tree, as GlobalNamespace(root)
\* and nest() make them over the tree as it is.
AllSpaces == [s \in Scopes |-> NewBindings(s)]

\* The walk of _binding_namespace from the Namespace of s for n ends at the
\* Namespace of the binding scope that s records for n.
WalkEnds(s, n) ==
    LET bn == binding_namespace(AllSpaces, vars, s, n) IN
    /\ bn.err = Ok
    /\ bn.ns # None
    /\ bn.ns = vars[s][n]

\* C37: when build() of the root has returned, for every scope of the tree
\* and every name in its vars, the walk that load, store and delete of its
\* Namespace make up the parent chain ends at the Namespace of the binding
\* scope recorded for the name: it does not run past the RootNamespace and
\* no recorded binding scope is null.
C37_WalkEnds ==
    [][(cur = Root /\ cur' = None) =>
        (\A s \in Scopes : \A n \in DOMAIN vars[s] : WalkEnds(s, n))']_allVars

\* On a built tree a function nested in a function resolves x to the outer
\* function, and the walk from its Namespace ends at the Namespace of the
\* outer function; every walk in the tree ends.
C37_Witness ==
    /\ Built /\ builds = 1
    /\ \A s \in Scopes : \A n \in DOMAIN vars[s] : WalkEnds(s, n)
    /\ \E f \in NestedScopes, g \in NestedScopes :
        /\ parent[g] = f /\ kind[f] = "Function" /\ kind[g] = "Function"
        /\ status(vars, g, "x") = "Nonlocal"
        /\ binding_namespace(AllSpaces, vars, g, "x").ns = f

\* ----------------------------------------------------------------- C38

C39_ToplevelOpen ==
    /\ \A s \in NestedScopes : \A n \in Names :
            (s # Toplevel /\ UnderToplevel(s)) =>
                LET a == add_nonlocal(vars, s, n)
                    b == binding_scope(vars, s, n)
                IN
                /\ a.err \in {Ok} \cup StaticBindingErrors
                /\ b.err = Ok
                /\ status(vars, s, n) \in {"Unknown", "Used"} =>
                        a.r # Toplevel /\ b.r # Toplevel
    /\ \A n \in Names :
            status(vars, Toplevel, n) = "Used" =>
                LET b == binding_scope(vars, Toplevel, n) IN
                b.err = Ok /\ b.r = Root

====
